---- MODULE Spec2Model ----
(***************************************************************************)
(* Model of src/main.py: the withdrawal endpoint (withdraw_tokens) and the *)
(* withdrawal dispatcher (process_withdrawal), together with the part of   *)
(* the chain the dispatcher observes: the account's mined-transaction      *)
(* count (its next nonce at block "latest"), the pool of broadcast         *)
(* transactions, and how many mined transactions delivered the amount.     *)
(*                                                                         *)
(* Strings the code inspects character by character (addresses, compared   *)
(* after lower()) are sequences of one-character strings.  The 42-char     *)
(* addresses of the source are abbreviated to their first 8 characters.    *)
(* Amounts are decimal numbers with one fractional digit: w + t/10.        *)
(***************************************************************************)
EXTENDS Integers, Sequences, FiniteSets, TLC

VARIABLES
    web3_instance,   \* main.py:34   TRUE when the module global holds a Web3 object
    admin_account,   \* main.py:35   TRUE when the signing identity is loaded
    web3_ready,      \* main.py:115  the value init_web3() returned at start-up
    connected,       \* what web3_instance.is_connected() would answer now
    latest_nonce,    \* eth.get_transaction_count(admin_address): mined txs of the identity
    balance,         \* eth.get_balance(admin_address), in units of 0.0001 ETH
    pool,            \* transactions broadcast by send_raw_transaction and still of interest
    delivered,       \* per request: mined, successful transactions that paid the destination
    callers,         \* the requests that are issued in this behaviour
    frame            \* per request: the locals of withdraw_tokens / process_withdrawal

vars == <<web3_instance, admin_account, web3_ready, connected, latest_nonce,
          balance, pool, delivered, callers, frame>>

globals == <<web3_instance, admin_account, web3_ready>>

-----------------------------------------------------------------------------
(* Configuration: main.py:28-32, 153, 195-197.                              *)

Procs == {1, 2}

None == <<"None">>

ADDR_PRIMARY   == <<"0", "x", "2", "9", "9", "8", "3", "B">>
ADDR_SECONDARY == <<"0", "x", "0", "b", "8", "A", "d", "d">>
ADDR_TERTIARY  == <<"0", "x", "f", "9", "7", "A", "3", "9">>

CONTRACTS ==
    << [id |-> 1, name |-> "Primary",   address |-> ADDR_PRIMARY],
       [id |-> 2, name |-> "Secondary", address |-> ADDR_SECONDARY],
       [id |-> 3, name |-> "Tertiary",  address |-> ADDR_TERTIARY] >>

MAX_AMOUNT == 1000000000

DEFAULT_DECIMALS == 18

DEFAULT_SYMBOL == "TOKEN"

\* main.py:444: 0.001 ETH, in units of 0.0001 ETH
MIN_ADMIN_ETH == 10

METHODS == <<"mint", "transfer">>

-----------------------------------------------------------------------------
(* Strings.                                                                 *)

Range(s) == {s[i] : i \in DOMAIN s}

UpperHex == {"A", "B", "C", "D", "E", "F"}
LowerHex == {"a", "b", "c", "d", "e", "f"}
Digits   == {"0", "1", "2", "3", "4", "5", "6", "7", "8", "9"}

\* str.lower() on one character.
LowerChar(ch) ==
    CASE ch = "A" -> "a" [] ch = "B" -> "b" [] ch = "C" -> "c"
      [] ch = "D" -> "d" [] ch = "E" -> "e" [] ch = "F" -> "f"
      [] ch = "X" -> "x"
      [] OTHER -> ch

\* str.lower()
Lower(s) == [i \in DOMAIN s |-> LowerChar(s[i])]

\* Python truthiness of an optional string: None and "" are falsy.
Truthy(s) == s # None /\ s # <<>>

\* The addresses whose mixed-case spelling carries a valid checksum.
USER_WALLET == <<"0", "x", "A", "b", "1", "2", "C", "d">>
Checksummed == {ADDR_PRIMARY, ADDR_SECONDARY, ADDR_TERTIARY, USER_WALLET}

\* Web3.is_address: "0x" + hex digits of the address length; a mixed-case
\* spelling must be the checksummed one.
IsAddress(a) ==
    /\ a # None
    /\ Len(a) = Len(ADDR_PRIMARY)
    /\ a[1] = "0"
    /\ a[2] \in {"x", "X"}
    /\ \A i \in 3..Len(a) : a[i] \in Digits \cup LowerHex \cup UpperHex
    /\ \/ \A i \in 3..Len(a) : a[i] \notin UpperHex
       \/ \A i \in 3..Len(a) : a[i] \notin LowerHex
       \/ a \in Checksummed

-----------------------------------------------------------------------------
(* Amounts: [kind, w, t] stands for the float w + t/10, for NaN, or for a   *)
(* value float() rejects.                                                   *)

Num(w, t) == [kind |-> "num", w |-> w, t |-> t]
NaN       == [kind |-> "nan", w |-> 0, t |-> 0]
NotANumber == [kind |-> "none", w |-> 0, t |-> 0]

\* amount <= 0 (false for NaN: every comparison with NaN is false)
LeZero(a) == a.kind = "num" /\ (a.w < 0 \/ (a.w = 0 /\ a.t = 0))

\* amount > 1_000_000_000
GtMax(a) == a.kind = "num" /\ (a.w > MAX_AMOUNT \/ (a.w = MAX_AMOUNT /\ a.t > 0))

-----------------------------------------------------------------------------
(* What a call hands back: a returned dict (ok) or a raised exception.      *)

NoResult ==
    [ok |-> FALSE, exc |-> "", status |-> 0, detail |-> "", method |-> "",
     contract |-> "", contractAddress |-> <<>>, reasons |-> {}]

\* raise HTTPException(status, detail)
HttpError(status, detail) ==
    [NoResult EXCEPT !.exc = "HTTPException", !.status = status, !.detail = detail]

\* raise ValueError(detail)
ValueErr(detail) == [NoResult EXCEPT !.exc = "ValueError", !.detail = detail]

\* main.py:147
NotReady == HttpError(503, "Backend not connected to blockchain")

\* main.py:151
InvalidAddress == ValueErr("Invalid Ethereum address format")

\* main.py:155
InvalidAmount == ValueErr("Amount must be between 0 and 1 billion")

\* main.py:340.  The message is a constant: no failure reason is put in it.
AllAttemptsExhausted ==
    HttpError(500, "All withdrawal methods exhausted after 6 attempts")

\* main.py:247-257 and 313-323
SuccessResult(method, contract_data) ==
    [NoResult EXCEPT !.ok = TRUE, !.method = method,
                     !.contract = contract_data.name,
                     !.contractAddress = contract_data.address]

-----------------------------------------------------------------------------
(* process_withdrawal, main.py:145-166: validation and attempt order.       *)

\* The range check without its upper limit.
AmountOutOfRange_NoCeiling(a) == LeZero(a)

\* main.py:153
AmountOutOfRange(a) == LeZero(a) \/ GtMax(a)

\* The amount is checked before the address.
PreconditionFailure_AmountFirst(w3, account, user_wallet, amount_requested) ==
    IF ~w3 \/ ~account THEN NotReady
    ELSE IF AmountOutOfRange(amount_requested) THEN InvalidAmount
    ELSE IF ~IsAddress(user_wallet) THEN InvalidAddress
    ELSE NoResult

\* main.py:145-155: the exception the checks raise, or NoResult when all pass.
PreconditionFailure(w3, account, user_wallet, amount_requested) ==
    IF ~w3 \/ ~account THEN NotReady
    ELSE IF ~IsAddress(user_wallet) THEN InvalidAddress
    ELSE IF AmountOutOfRange(amount_requested) THEN InvalidAmount
    ELSE NoResult

\* The comparison without lower().
AddressMatches_CaseSensitive(contract, preferred_contract) ==
    contract.address = preferred_contract

\* main.py:161
AddressMatches(contract, preferred_contract) ==
    Lower(contract.address) = Lower(preferred_contract)

\* main.py:160-162: every matching contract is inserted at the front.
RECURSIVE InsertMatches(_, _, _)
InsertMatches(i, preferred_contract, list) ==
    IF i > Len(CONTRACTS) THEN list
    ELSE InsertMatches(i + 1, preferred_contract,
                       IF AddressMatches(CONTRACTS[i], preferred_contract)
                       THEN <<CONTRACTS[i]>> \o list
                       ELSE list)

\* The second loop appends without looking at the list.
AlreadyListed_Never(contract, list) == FALSE

\* main.py:165
AlreadyListed(contract, list) == contract \in Range(list)

\* main.py:164-166: the contracts not yet listed are appended in configured order.
RECURSIVE AppendMissing(_, _)
AppendMissing(i, list) ==
    IF i > Len(CONTRACTS) THEN list
    ELSE AppendMissing(i + 1,
                       IF AlreadyListed(CONTRACTS[i], list) THEN list
                       ELSE Append(list, CONTRACTS[i]))

\* main.py:157-166
BuildContractList(preferred_contract) ==
    AppendMissing(1, IF Truthy(preferred_contract)
                     THEN InsertMatches(1, preferred_contract, <<>>)
                     ELSE <<>>)

-----------------------------------------------------------------------------
(* The locals of one request.                                               *)

\* A local that has not been assigned yet.
Unset == -1

IdleFrame ==
    [pc               |-> "idle",
     caller           |-> "",          \* who called process_withdrawal
     admin_eth        |-> Unset,       \* main.py:442, when get_balance answered
     user_wallet      |-> None,
     amount_requested |-> NotANumber,
     preferred_contract |-> None,
     contract_list    |-> <<>>,
     contract_idx     |-> 0,           \* 1-based position in contract_list
     token_symbol     |-> "",
     token_decimals   |-> Unset,
     meta             |-> "",          \* how the metadata queries of this contract ended
     reported_decimals |-> Unset,    \* what decimals() answered, when it answered
     amount_in_wei    |-> [hi |-> 0, lo |-> 0, exp |-> 0],
     current_nonce    |-> Unset,
     fresh_nonce      |-> Unset,
     nonce_read_after |-> Unset,       \* attempts that were over at the last nonce read
     tx               |-> 0,           \* attempt number of the transaction being awaited
     mint_broadcast   |-> FALSE,       \* this contract's mint transaction reached the network
     attempts         |-> <<>>,        \* the (contract id, method) pairs attempted, in order
     setup_failed     |-> {},          \* ids of the contracts the outer except caught
     setup_error      |-> "",          \* what raised in the latest set-up, "" when nothing
     last_reason      |-> [i \in 1..Len(CONTRACTS) |-> ""],
     result           |-> NoResult,    \* what process_withdrawal returned or raised
     response         |-> NoResult,    \* what withdraw_tokens returned or raised
     chain_called     |-> FALSE,       \* process_withdrawal has called the chain client
     caller_chain_called |-> FALSE]    \* withdraw_tokens itself has called the chain client

\* contract_data of the running loop iteration (main.py:176)
ContractData(f) == f.contract_list[f.contract_idx]

-----------------------------------------------------------------------------
(* init_web3, main.py:39-112, by its three inputs: the wallet loads, the    *)
(* RPC key is set and the client object is built, the endpoint answers.     *)

init_web3(wallet_ok, client_ok, is_connected) ==
    [admin_account |-> wallet_ok,
     web3_instance |-> wallet_ok /\ client_ok,
     web3_ready    |-> wallet_ok /\ client_ok /\ is_connected]

\* The identity's balance: just below the threshold, or exactly the threshold.
BalanceInputs == {MIN_ADMIN_ETH - 1, MIN_ADMIN_ETH}

InitWith(cs, balances) ==
    /\ \E wallet_ok \in BOOLEAN, client_ok \in BOOLEAN, is_connected \in BOOLEAN :
          LET g == init_web3(wallet_ok, client_ok, is_connected) IN
          /\ admin_account = g.admin_account
          /\ web3_instance = g.web3_instance
          /\ web3_ready = g.web3_ready
          /\ connected = is_connected
    /\ latest_nonce = 0
    /\ balance \in balances
    /\ pool = {}
    /\ delivered = [p \in Procs |-> 0]
    /\ callers = cs
    /\ frame = [p \in Procs |-> IdleFrame]

Init == InitWith({1}, BalanceInputs)

-----------------------------------------------------------------------------
(* The requests the model issues.                                           *)

SHORT_WALLET == <<"0", "x", "A", "b", "1", "2">>
BAD_CHECKSUM_WALLET == <<"0", "x", "a", "B", "1", "2", "c", "D">>

WalletInputs == {None, USER_WALLET, SHORT_WALLET, BAD_CHECKSUM_WALLET}

AmountInputs ==
    {NaN, Num(-1, 0), Num(0, 0), Num(1, 5), Num(MAX_AMOUNT, 0), Num(MAX_AMOUNT, 1)}

PreferredInputs ==
    {None, ADDR_SECONDARY, Lower(ADDR_TERTIARY), USER_WALLET}

Set(p, f) == frame' = [frame EXCEPT ![p] = f]

\* The RPC endpoint becomes unreachable after start-up, before the requests
\* arrive; the code reads is_connected() at start-up only (main.py:80).
ConnectionLost ==
    /\ \A p \in Procs : frame[p].pc = "idle"
    /\ connected
    /\ connected' = FALSE
    /\ UNCHANGED <<globals, balance, latest_nonce, pool, delivered, callers, frame>>

-----------------------------------------------------------------------------
(* withdraw_tokens, main.py:402-469.                                        *)

\* main.py:414-433: the checks made before any chain call.
EndpointRejection(ready, user_wallet, amount) ==
    IF ~ready
    THEN HttpError(503, "Backend not connected to blockchain - check ALCHEMY_API_KEY and admin wallet")
    ELSE IF ~Truthy(user_wallet) THEN HttpError(400, "Missing walletAddress")
    ELSE IF amount.kind = "none" THEN HttpError(400, "Invalid amount format")
    ELSE IF LeZero(amount) THEN HttpError(400, "Amount must be greater than 0")
    ELSE NoResult

\* main.py:403-438
WithdrawRequest(p) ==
    /\ p \in callers
    /\ frame[p].pc = "idle"
    /\ \E w \in WalletInputs, a \in AmountInputs \cup {NotANumber}, pref \in PreferredInputs :
          LET rej == EndpointRejection(web3_ready, w, a)
              f == [frame[p] EXCEPT !.caller = "withdraw_tokens", !.user_wallet = w,
                                    !.amount_requested = a, !.preferred_contract = pref]
          IN IF rej # NoResult
             THEN Set(p, [f EXCEPT !.pc = "done", !.response = rej])
             ELSE Set(p, [f EXCEPT !.pc = "check_balance"])
    /\ UNCHANGED <<globals, balance, connected, latest_nonce, pool, delivered, callers>>

\* main.py:446
OutOfGas == HttpError(503, "Backend wallet out of gas")

\* The threshold is not applied.
BalanceTooLow_Ignored(admin_eth) == FALSE

\* main.py:444
BalanceTooLow(admin_eth) == admin_eth < MIN_ADMIN_ETH

\* main.py:440-451: get_balance raises (logged, ignored), or answers and the
\* balance is compared with 0.001 ETH.
WithdrawBalance(p) ==
    /\ frame[p].pc = "check_balance"
    /\ \E outcome \in {"raises", "answers"} :
          /\ connected \/ outcome = "raises"
          /\ LET f == [frame[p] EXCEPT !.caller_chain_called = TRUE] IN
                IF outcome = "raises"
                THEN Set(p, [f EXCEPT !.pc = "dispatch"])
                ELSE IF BalanceTooLow(balance)
                THEN Set(p, [f EXCEPT !.pc = "done", !.admin_eth = balance,
                                      !.response = OutOfGas])
                ELSE Set(p, [f EXCEPT !.pc = "dispatch", !.admin_eth = balance])
    /\ UNCHANGED <<globals, balance, connected, latest_nonce, pool, delivered, callers>>

\* main.py:465-469: an HTTPException passes through, any other exception
\* becomes HTTPException(500, "Withdrawal failed: ...").
EndpointResponse(result) ==
    IF result.ok \/ result.exc = "HTTPException" THEN result
    ELSE HttpError(500, "Withdrawal failed")

\* main.py:454-469
WithdrawReturn(p) ==
    /\ frame[p].pc = "returned"
    /\ frame[p].caller = "withdraw_tokens"
    /\ Set(p, [frame[p] EXCEPT !.pc = "done", !.response = EndpointResponse(frame[p].result)])
    /\ UNCHANGED <<globals, balance, connected, latest_nonce, pool, delivered, callers>>

\* process_withdrawal called on its own (main.py:131), by a test or another module.
CallDispatch(p) ==
    /\ p \in callers
    /\ frame[p].pc = "idle"
    /\ \E w \in WalletInputs, a \in AmountInputs, pref \in PreferredInputs :
          Set(p, [frame[p] EXCEPT !.caller = "direct", !.pc = "dispatch",
                                  !.user_wallet = w, !.amount_requested = a,
                                  !.preferred_contract = pref])
    /\ UNCHANGED <<globals, balance, connected, latest_nonce, pool, delivered, callers>>

-----------------------------------------------------------------------------
(* process_withdrawal, main.py:131-340.                                     *)

\* main.py:145-173: the checks, then the attempt order.
Validate(p) ==
    /\ frame[p].pc = "dispatch"
    /\ LET f == frame[p]
           failure == PreconditionFailure(web3_instance, admin_account,
                                          f.user_wallet, f.amount_requested)
       IN IF failure # NoResult
          THEN Set(p, [f EXCEPT !.pc = "returned", !.result = failure])
          ELSE Set(p, [f EXCEPT !.pc = "setup", !.contract_idx = 1,
                                !.contract_list = BuildContractList(f.preferred_contract)])
    /\ UNCHANGED <<globals, balance, connected, latest_nonce, pool, delivered, callers>>

-----------------------------------------------------------------------------
(* The attempt loop, main.py:176-340.                                       *)

\* The loop leaves out the last contract of the list.
NextContract_StopsEarly(f) ==
    IF f.contract_idx < Len(f.contract_list) - 1
    THEN [f EXCEPT !.pc = "setup", !.contract_idx = @ + 1]
    ELSE [f EXCEPT !.pc = "returned", !.result = AllAttemptsExhausted]

\* main.py:176 and 335-340: the next loop iteration, or the raise that
\* follows the loop when contract_list is used up.
NextContract(f) ==
    IF f.contract_idx < Len(f.contract_list)
    THEN [f EXCEPT !.pc = "setup", !.contract_idx = @ + 1]
    ELSE [f EXCEPT !.pc = "returned", !.result = AllAttemptsExhausted]

\* The exception of the set-up leaves process_withdrawal.
ContractFailed_Raises(f) ==
    [f EXCEPT !.pc = "returned", !.result = ValueErr("cannot convert float NaN to integer")]

\* main.py:331-333: the outer except logs and continues with the next contract.
ContractFailed(f) ==
    NextContract([f EXCEPT !.setup_failed = @ \cup {ContractData(f).id}])

\* A failed mint ends the loop iteration.
MintFailed_SkipsTransfer(f, reason) ==
    NextContract([f EXCEPT !.tx = 0, !.last_reason[ContractData(f).id] = reason])

\* main.py:258-271: status 0 or an exception in the mint block falls through
\* to the transfer block of the same contract.
MintFailed(f, reason) ==
    [f EXCEPT !.pc = "transfer", !.tx = 0,
              !.last_reason[ContractData(f).id] = reason]

\* A failed transfer leaves the loop.
TransferFailed_Aborts(f, reason) ==
    [f EXCEPT !.pc = "returned", !.tx = 0, !.result = AllAttemptsExhausted,
              !.last_reason[ContractData(f).id] = reason]

\* main.py:324-329: status 0 or an exception in the transfer block ends the
\* loop iteration.
TransferFailed(f, reason) ==
    NextContract([f EXCEPT !.tx = 0, !.last_reason[ContractData(f).id] = reason])

\* A successful mint does not return: the transfer block runs as well.
Succeeded_FallsThrough(f, method) ==
    IF method = "mint" THEN [f EXCEPT !.pc = "transfer", !.tx = 0]
    ELSE [f EXCEPT !.pc = "returned", !.tx = 0,
                   !.result = SuccessResult(method, ContractData(f))]

\* The success dict names the head of the list instead of contract_data.
Succeeded_ReportsFirstContract(f, method) ==
    [f EXCEPT !.pc = "returned", !.tx = 0,
              !.result = SuccessResult(method, f.contract_list[1])]

\* main.py:236-257 and 302-323: a receipt with status 1 returns at once.
Succeeded(f, method) ==
    [f EXCEPT !.pc = "returned", !.tx = 0,
              !.result = SuccessResult(method, ContractData(f))]

\* What decimals() answers on each contract of the model (a fact of the
\* deployed contract, not of the dispatcher).
ReportedDecimals(contract) ==
    CASE contract.id = 1 -> 18 [] contract.id = 2 -> 6 [] OTHER -> 0

\* main.py:188-197: all three queries answer, or symbol() raises, or symbol()
\* and decimals() answer and name() raises.
MetaOutcomes == {"ok", "symbol_fails", "name_fails"}

\* main.py:188-197: decimals as the code uses it.
TokenDecimals(m, d) == IF m = "ok" THEN d ELSE DEFAULT_DECIMALS

\* main.py:189, 195
TokenSymbol(m) == IF m = "ok" THEN "SYM" ELSE DEFAULT_SYMBOL

\* main.py:200: int(amount_requested * 10 ** token_decimals), as
\* hi * 10^exp + lo * 10^(exp-1); int() drops the fraction when exp = 0.
ScaleAmount(a, decimals) ==
    [hi |-> a.w, lo |-> IF decimals > 0 THEN a.t ELSE 0, exp |-> decimals]

\* main.py:200: int(nan) raises ValueError.
ScaleRaises(a) == a.kind = "nan"

\* A failing metadata query ends the set-up like any other exception.
SetupError_MetadataAborts(m, a, rpc) ==
    IF m # "ok" THEN "metadata"
    ELSE IF ScaleRaises(a) THEN "scale"
    ELSE IF rpc = "gas_price_raises" THEN "gas_price"
    ELSE IF rpc = "nonce_raises" THEN "nonce"
    ELSE ""

\* main.py:180-209: the statement of the set-up that raises into the outer
\* except, "" when none does.  The metadata queries have their own except
\* (main.py:193-197); then come the scaling (200), the gas price (204) and
\* the nonce (209).
SetupError(m, a, rpc) ==
    IF ScaleRaises(a) THEN "scale"
    ELSE IF rpc = "gas_price_raises" THEN "gas_price"
    ELSE IF rpc = "nonce_raises" THEN "nonce"
    ELSE ""

\* main.py:180-209: binding, metadata, scaling, gas price, nonce.
Setup(p) ==
    /\ frame[p].pc = "setup"
    /\ \E m \in MetaOutcomes, rpc \in {"gas_price_raises", "nonce_raises", "ok"} :
          /\ connected \/ (m = "symbol_fails" /\ rpc = "gas_price_raises")
          /\ LET a == frame[p].amount_requested
                 d == ReportedDecimals(ContractData(frame[p]))
                 f == [frame[p] EXCEPT
                         !.meta = m,
                         !.reported_decimals = IF m \in {"ok", "name_fails"} THEN d ELSE Unset,
                         !.token_symbol = TokenSymbol(m),
                         !.token_decimals = TokenDecimals(m, d),
                         !.mint_broadcast = FALSE,
                         !.setup_error = SetupError(m, a, rpc),
                         !.chain_called = TRUE]
             IN IF f.setup_error # ""
                THEN Set(p, ContractFailed(f))
                ELSE Set(p, [f EXCEPT !.pc = "mint",
                                      !.amount_in_wei = ScaleAmount(a, TokenDecimals(m, d)),
                                      !.current_nonce = latest_nonce,
                                      !.nonce_read_after = Len(f.attempts)])
    /\ UNCHANGED <<globals, balance, connected, latest_nonce, pool, delivered, callers>>

\* A transaction of request p, broadcast as its k-th attempt.
Tx(p, k, nonce, read_after) ==
    [owner |-> p, k |-> k, nonce |-> nonce, read_after |-> read_after, state |-> "pending"]

\* The pool entry of the transaction request p waits for.
Awaited(p) == CHOOSE t \in pool : t.owner = p /\ t.k = frame[p].tx

\* The node accepts a raw transaction unless its nonce is already used up.
Accepts(nonce) == nonce >= latest_nonce

\* main.py:212-231: build, sign, broadcast the mint transaction.
MintSend(p) ==
    /\ frame[p].pc = "mint"
    /\ LET c == ContractData(frame[p])
           f == [frame[p] EXCEPT !.attempts = Append(@, <<c.id, "mint">>)]
           k == Len(f.attempts)
       IN \/ /\ Set(p, MintFailed([f EXCEPT !.chain_called = TRUE], "exception"))
             /\ UNCHANGED pool
          \/ /\ Accepts(f.current_nonce)
             /\ Set(p, [f EXCEPT !.pc = "mint_wait", !.tx = k, !.mint_broadcast = TRUE,
                                 !.chain_called = TRUE])
             /\ pool' = pool \cup {Tx(p, k, f.current_nonce, f.nonce_read_after)}
    /\ UNCHANGED <<globals, balance, connected, latest_nonce, delivered, callers>>

\* After a timeout the transaction stays in the pool while it can still be mined.
Abandon(t) == IF t.nonce >= latest_nonce THEN pool ELSE pool \ {t}

\* The wait has no timeout: it ends only with a receipt.
MintWait_NoTimeout(p) ==
    /\ frame[p].pc = "mint_wait"
    /\ LET t == Awaited(p)
           f == [frame[p] EXCEPT !.chain_called = TRUE]
       IN CASE t.state = "ok" ->
                 /\ Set(p, Succeeded(f, "mint"))
                 /\ pool' = pool \ {t}
            [] t.state = "reverted" ->
                 /\ Set(p, MintFailed(f, "status0"))
                 /\ pool' = pool \ {t}
            [] OTHER -> FALSE
    /\ UNCHANGED <<globals, balance, connected, latest_nonce, delivered, callers>>

\* main.py:234-271: wait_for_transaction_receipt(tx_hash, timeout=120).
MintWait(p) ==
    /\ frame[p].pc = "mint_wait"
    /\ LET t == Awaited(p)
           f == [frame[p] EXCEPT !.chain_called = TRUE]
       IN CASE t.state = "ok" ->
                 /\ Set(p, Succeeded(f, "mint"))
                 /\ pool' = pool \ {t}
            [] t.state = "reverted" ->
                 /\ Set(p, MintFailed(f, "status0"))
                 /\ pool' = pool \ {t}
            [] OTHER ->
                 /\ Set(p, MintFailed(f, "exception"))
                 /\ pool' = Abandon(t)
    /\ UNCHANGED <<globals, balance, connected, latest_nonce, delivered, callers>>

\* The transfer reuses the nonce read before the mint.
FreshNonce_Cached(f) == [f EXCEPT !.fresh_nonce = f.current_nonce]

\* main.py:278: get_transaction_count(admin_address), called when the
\* attempts made so far are over.
FreshNonce(f) ==
    [f EXCEPT !.fresh_nonce = latest_nonce, !.nonce_read_after = Len(f.attempts)]

\* main.py:274-279: the transfer block opens with a fresh nonce.
TransferNonce(p) ==
    /\ frame[p].pc = "transfer"
    /\ LET c == ContractData(frame[p])
           f == [frame[p] EXCEPT !.attempts = Append(@, <<c.id, "transfer">>),
                                 !.chain_called = TRUE]
       IN \/ Set(p, TransferFailed(f, "exception"))
          \/ Set(p, [FreshNonce(frame[p]) EXCEPT
                       !.pc = "transfer_send", !.attempts = f.attempts,
                       !.chain_called = TRUE])
    /\ UNCHANGED <<globals, balance, connected, latest_nonce, pool, delivered, callers>>

\* main.py:281-297: build, sign, broadcast the transfer transaction.
TransferSend(p) ==
    /\ frame[p].pc = "transfer_send"
    /\ LET f == [frame[p] EXCEPT !.chain_called = TRUE]
           k == Len(f.attempts)
       IN \/ /\ Set(p, TransferFailed(f, "exception"))
             /\ UNCHANGED pool
          \/ /\ Accepts(f.fresh_nonce)
             /\ Set(p, [f EXCEPT !.pc = "transfer_wait", !.tx = k])
             /\ pool' = pool \cup {Tx(p, k, f.fresh_nonce, f.nonce_read_after)}
    /\ UNCHANGED <<globals, balance, connected, latest_nonce, delivered, callers>>

\* main.py:300-329
TransferWait(p) ==
    /\ frame[p].pc = "transfer_wait"
    /\ LET t == Awaited(p)
           f == [frame[p] EXCEPT !.chain_called = TRUE]
       IN CASE t.state = "ok" ->
                 /\ Set(p, Succeeded(f, "transfer"))
                 /\ pool' = pool \ {t}
            [] t.state = "reverted" ->
                 /\ Set(p, TransferFailed(f, "status0"))
                 /\ pool' = pool \ {t}
            [] OTHER ->
                 /\ Set(p, TransferFailed(f, "exception"))
                 /\ pool' = Abandon(t)
    /\ UNCHANGED <<globals, balance, connected, latest_nonce, delivered, callers>>

\* The network mines the pending transaction whose nonce is the account's
\* next one; it succeeds (status 1, the destination is paid) or reverts
\* (status 0).  Its receipt is kept for the request that waits for it.  Every
\* pending transaction carries a nonce read from latest_nonce, so after this
\* step none of the others can be mined any more: those nobody waits for are
\* dropped, the awaited ones stay pending until their wait times out.
IsAwaited(t) ==
    frame[t.owner].tx = t.k /\ frame[t.owner].pc \in {"mint_wait", "transfer_wait"}

Mine ==
    \E t \in pool, status \in {"ok", "reverted"} :
       /\ t.state = "pending"
       /\ t.nonce = latest_nonce
       /\ latest_nonce' = latest_nonce + 1
       /\ delivered' = [delivered EXCEPT ![t.owner] = @ + (IF status = "ok" THEN 1 ELSE 0)]
       /\ pool' = {u \in (pool \ {t}) : u.state # "pending" \/ IsAwaited(u)}
                    \cup (IF IsAwaited(t) THEN {[t EXCEPT !.state = status]} ELSE {})
       /\ UNCHANGED <<globals, balance, connected, callers, frame>>

-----------------------------------------------------------------------------

Step(p) ==
    \/ WithdrawRequest(p)
    \/ WithdrawBalance(p)
    \/ WithdrawReturn(p)
    \/ CallDispatch(p)
    \/ Validate(p)
    \/ Setup(p)
    \/ MintSend(p)
    \/ MintWait(p)
    \/ TransferNonce(p)
    \/ TransferSend(p)
    \/ TransferWait(p)

Next == (\E p \in Procs : Step(p)) \/ Mine \/ ConnectionLost

Spec == Init /\ [][Next]_vars

-----------------------------------------------------------------------------
(* process_withdrawal on its own, for the properties of its progress: a     *)
(* valid and an invalid wallet, a number and NaN, with and without a        *)
(* preferred contract.                                                      *)

DispatchCall(p) ==
    /\ p \in callers
    /\ frame[p].pc = "idle"
    /\ \E w \in {USER_WALLET, SHORT_WALLET}, a \in {NaN, Num(1, 5)},
          pref \in {None, ADDR_SECONDARY} :
          Set(p, [frame[p] EXCEPT !.caller = "direct", !.pc = "dispatch",
                                  !.user_wallet = w, !.amount_requested = a,
                                  !.preferred_contract = pref])
    /\ UNCHANGED <<globals, balance, connected, latest_nonce, pool, delivered, callers>>

StepDispatch(p) ==
    \/ DispatchCall(p)
    \/ Validate(p)
    \/ Setup(p)
    \/ MintSend(p)
    \/ MintWait(p)
    \/ TransferNonce(p)
    \/ TransferSend(p)
    \/ TransferWait(p)

NextDispatch == (\E p \in Procs : StepDispatch(p)) \/ Mine \/ ConnectionLost

\* The thread that runs a call is scheduled while the call can take a step,
\* and every chain-client call returns, raises or times out
\* (wait_for_transaction_receipt has timeout=120, main.py:234, 300).  Nothing
\* is assumed of the network: a broadcast transaction may never be mined.
FairSpec ==
    /\ InitWith({1}, {MIN_ADMIN_ETH})
    /\ [][NextDispatch]_vars
    /\ \A p \in Procs : WF_vars(StepDispatch(p))

-----------------------------------------------------------------------------
(* Two requests at once.  withdraw_tokens is a plain def endpoint           *)
(* (main.py:402-403): the framework runs each request on a thread of its    *)
(* pool, and neither withdraw_tokens nor process_withdrawal takes a lock,   *)
(* so the steps of two requests interleave freely.                          *)

\* Each of the two requests is followed through the first
\* MaxConcurrentContracts contracts of its attempt order.
MaxConcurrentContracts == 1

\* main.py:403-438 for a well-formed request: a valid wallet, amount 1.5, no
\* preferred contract.
ConcurrentRequest(p) ==
    /\ p \in callers
    /\ frame[p].pc = "idle"
    /\ LET rej == EndpointRejection(web3_ready, USER_WALLET, Num(1, 5))
           f == [frame[p] EXCEPT !.caller = "withdraw_tokens", !.user_wallet = USER_WALLET,
                                 !.amount_requested = Num(1, 5)]
       IN IF rej # NoResult
          THEN Set(p, [f EXCEPT !.pc = "done", !.response = rej])
          ELSE Set(p, [f EXCEPT !.pc = "check_balance"])
    /\ UNCHANGED <<globals, balance, connected, latest_nonce, pool, delivered, callers>>

StepConcurrent(p) ==
    /\ frame[p].contract_idx <= MaxConcurrentContracts
    /\ \/ ConcurrentRequest(p)
       \/ WithdrawBalance(p)
       \/ WithdrawReturn(p)
       \/ Validate(p)
       \/ Setup(p)
       \/ MintSend(p)
       \/ MintWait(p)
       \/ TransferNonce(p)
       \/ TransferSend(p)
       \/ TransferWait(p)

NextConcurrent == (\E p \in Procs : StepConcurrent(p)) \/ Mine

SpecConcurrent == InitWith(Procs, BalanceInputs) /\ [][NextConcurrent]_vars

-----------------------------------------------------------------------------
(* Vocabulary of the properties.                                            *)

\* process_withdrawal has returned or raised.
Returned(p) == frame[p].pc \in {"returned", "done"} /\ frame[p].result # NoResult

\* process_withdrawal raised the exception that follows the loop.
Exhausted(p) == Returned(p) /\ frame[p].result = AllAttemptsExhausted

\* process_withdrawal returned a success dict.
Successful(p) == Returned(p) /\ frame[p].result.ok

\* The contracts process_withdrawal was about to try, in order, by id.
Order(p) == [i \in DOMAIN frame[p].contract_list |-> frame[p].contract_list[i].id]

\* The position of (contract id, method) in the full attempt order of p:
\* mint then transfer on the 1st contract, then on the 2nd, ...
PairPosition(p, id, method) ==
    LET i == CHOOSE j \in DOMAIN Order(p) : Order(p)[j] = id
    IN 2 * (i - 1) + (IF method = "mint" THEN 1 ELSE 2)

\* The ids of the contracts on which p made at least one attempt.
Tried(p) == {a[1] : a \in Range(frame[p].attempts)}

\* Every (contract, method) pair attempted on the contracts in ids.
BothMethodsOn(p, ids) ==
    \A id \in ids : <<id, "mint">> \in Range(frame[p].attempts)
                    /\ <<id, "transfer">> \in Range(frame[p].attempts)

-----------------------------------------------------------------------------
(* C1 *)

-----------------------------------------------------------------------------
(* C2 *)

\* Two characters that are the same letter in either case.
SameLetter(x, y) ==
    \/ x = y
    \/ {x, y} \in {{"a", "A"}, {"b", "B"}, {"c", "C"}, {"d", "D"}, {"e", "E"},
                   {"f", "F"}, {"x", "X"}}

\* Case-insensitive equality of two strings.
EqualIgnoringCase(a, b) ==
    Len(a) = Len(b) /\ \A i \in DOMAIN a : SameLetter(a[i], b[i])

\* The configured positions whose address the request names.
Preferred(p) ==
    {i \in DOMAIN CONTRACTS :
        /\ frame[p].preferred_contract \notin {None, <<>>}
        /\ EqualIgnoringCase(CONTRACTS[i].address, frame[p].preferred_contract)}

\* The configured contracts other than the i-th, in configured order.
Others(i) == SelectSeq(CONTRACTS, LAMBDA c : c # CONTRACTS[i])

\* The checks of process_withdrawal passed: the loop runs or has run.
PassedValidation(p) ==
    \/ frame[p].pc \in {"setup", "mint", "mint_wait", "transfer", "transfer_send",
                        "transfer_wait"}
    \/ Returned(p) /\ frame[p].result \notin {NotReady, InvalidAddress, InvalidAmount}

\* C2: the attempt order holds every configured contract exactly once; a
\* contract named (in any case) by preferred_contract is first and the others
\* follow in configured order; without a match the order is the configured one.
C2_AttemptOrder ==
    \A p \in Procs :
       PassedValidation(p) =>
          LET list == frame[p].contract_list IN
          /\ Len(list) = Len(CONTRACTS)
          /\ \A c \in Range(CONTRACTS) :
                Cardinality({i \in DOMAIN list : list[i] = c}) = 1
          /\ \A i \in Preferred(p) : list = <<CONTRACTS[i]>> \o Others(i)
          /\ Preferred(p) = {} => list = CONTRACTS

\* The request names the third configured contract in lower case, and it is
\* first in the order.
C2_Witness ==
    \E p \in Procs :
       /\ frame[p].preferred_contract = Lower(ADDR_TERTIARY)
       /\ frame[p].preferred_contract # ADDR_TERTIARY
       /\ frame[p].contract_list # <<>>
       /\ frame[p].contract_list[1] = CONTRACTS[3]
       /\ frame[p].pc = "mint"

-----------------------------------------------------------------------------
(* C3 *)

\* C3: within one dispatch no (contract, method) pair is attempted twice,
\* every attempt is a mint or a transfer on a configured contract, and there
\* are at most 2 x |CONTRACTS| attempts.
C3_AtMostOncePerPair ==
    \A p \in Procs :
       LET a == frame[p].attempts IN
       /\ \A i, j \in DOMAIN a : i # j => a[i] # a[j]
       /\ \A i \in DOMAIN a :
             /\ a[i][1] \in {CONTRACTS[n].id : n \in DOMAIN CONTRACTS}
             /\ a[i][2] \in Range(METHODS)
       /\ Len(a) <= 2 * Len(CONTRACTS)

\* A dispatch with a preferred contract that went through all six pairs.
C3_Witness ==
    \E p \in Procs :
       /\ Preferred(p) # {}
       /\ Len(frame[p].attempts) = 2 * Len(CONTRACTS)
       /\ frame[p].attempts[1][1] = CONTRACTS[2].id

-----------------------------------------------------------------------------
(* C4 *)

Last(seq) == seq[Len(seq)]

\* C4, as stated: a success returns the method and contract of the last
\* attempt made, and that attempt is the k-th pair of the attempt order when
\* exactly k attempts were made.
C4_SuccessAfterExactlyK ==
    \A p \in Procs :
       Successful(p) =>
          LET f == frame[p]
              c == CHOOSE c \in Range(f.contract_list) : c.name = f.result.contract
          IN /\ f.attempts # <<>>
             /\ Last(f.attempts) = <<c.id, f.result.method>>
             /\ f.result.contractAddress = c.address
             /\ Len(f.attempts) = PairPosition(p, c.id, f.result.method)

\* C4, amended: a success returns at once with the method and contract of the
\* last attempt made; when that attempt is the k-th pair of the attempt order,
\* k less 2 for each earlier contract whose set-up raised attempts were made.
C4_SuccessAfterKLessSkipped ==
    \A p \in Procs :
       Successful(p) =>
          LET f == frame[p]
              c == CHOOSE c \in Range(f.contract_list) : c.name = f.result.contract
          IN /\ f.attempts # <<>>
             /\ Last(f.attempts) = <<c.id, f.result.method>>
             /\ f.result.contractAddress = c.address
             /\ f.tx = 0
             /\ c.id \notin f.setup_failed
             /\ Len(f.attempts) = PairPosition(p, c.id, f.result.method)
                                    - 2 * Cardinality(f.setup_failed)

\* The scenario of the specification: everything fails on the first two
\* contracts, the mint on the third succeeds, after 5 attempts.
C4_Witness ==
    \E p \in Procs :
       /\ Successful(p)
       /\ frame[p].result.method = "mint"
       /\ frame[p].result.contract = "Tertiary"
       /\ frame[p].attempts = <<<<1, "mint">>, <<1, "transfer">>, <<2, "mint">>,
                                <<2, "transfer">>, <<3, "mint">>>>

-----------------------------------------------------------------------------
(* C5 *)

\* amount <= 0 or amount > MAX_AMOUNT, read off the request.
BadAmount(p) ==
    LET a == frame[p].amount_requested IN
    /\ a.kind = "num"
    /\ \/ a.w < 0
       \/ a.w = 0 /\ a.t = 0
       \/ a.w > MAX_AMOUNT
       \/ a.w = MAX_AMOUNT /\ a.t > 0

\* process_withdrawal has been entered.
Entered(p) == frame[p].pc \notin {"idle", "check_balance", "dispatch"}
                /\ ~(frame[p].pc = "done" /\ frame[p].result = NoResult)

\* C5, as stated: with an amount <= 0 or > MAX_AMOUNT, process_withdrawal
\* raises InvalidAmount and makes no chain-client call.
C5_BadAmountIsInvalidAmount ==
    \A p \in Procs :
       Entered(p) /\ BadAmount(p) =>
          /\ Returned(p)
          /\ frame[p].result = InvalidAmount
          /\ ~frame[p].chain_called

\* C5, amended: with an amount <= 0 or > MAX_AMOUNT, process_withdrawal fails
\* at once and makes no chain-client call; the failure is InvalidAmount when
\* the client handle and the identity are set and the destination is a valid
\* address, and otherwise NotReady or InvalidAddress, which are checked first.
C5_BadAmountFailsWithoutChainCall ==
    \A p \in Procs :
       Entered(p) /\ BadAmount(p) =>
          /\ Returned(p)
          /\ ~frame[p].chain_called
          /\ frame[p].contract_list = <<>>
          /\ frame[p].attempts = <<>>
          /\ frame[p].result \in {NotReady, InvalidAddress, InvalidAmount}
          /\ (web3_instance /\ admin_account /\ IsAddress(frame[p].user_wallet)
                => frame[p].result = InvalidAmount)

\* An amount just above MAX_AMOUNT, rejected as InvalidAmount.
C5_Witness ==
    \E p \in Procs :
       /\ frame[p].amount_requested = Num(MAX_AMOUNT, 1)
       /\ Returned(p)
       /\ frame[p].result = InvalidAmount
       /\ ~frame[p].chain_called

-----------------------------------------------------------------------------
(* C6 *)

\* C6, as stated: with a destination that is no valid address,
\* process_withdrawal raises InvalidAddress and makes no chain-client call.
C6_BadAddressIsInvalidAddress ==
    \A p \in Procs :
       Entered(p) /\ ~IsAddress(frame[p].user_wallet) =>
          /\ Returned(p)
          /\ frame[p].result = InvalidAddress
          /\ ~frame[p].chain_called

\* C6, amended: with a destination that is no valid address,
\* process_withdrawal fails at once and makes no chain-client call; the
\* failure is InvalidAddress when the client handle and the identity are set,
\* and otherwise NotReady, which is checked first.
C6_BadAddressFailsWithoutChainCall ==
    \A p \in Procs :
       Entered(p) /\ ~IsAddress(frame[p].user_wallet) =>
          /\ Returned(p)
          /\ ~frame[p].chain_called
          /\ frame[p].contract_list = <<>>
          /\ frame[p].attempts = <<>>
          /\ frame[p].result =
                (IF web3_instance /\ admin_account THEN InvalidAddress ELSE NotReady)

\* A destination with a malformed checksum and an amount out of range,
\* rejected as InvalidAddress.
C6_Witness ==
    \E p \in Procs :
       /\ frame[p].user_wallet = BAD_CHECKSUM_WALLET
       /\ BadAmount(p)
       /\ Returned(p)
       /\ frame[p].result = InvalidAddress
       /\ ~frame[p].chain_called

-----------------------------------------------------------------------------
(* C7 *)

\* C7: when process_withdrawal is entered while the chain client is not
\* connected or the identity is not loaded, it raises NotReady before the
\* attempt order is built and before any attempt.  (The connection does not
\* change while a request runs, so "connected" is its value at entry.)
C7_NotReadyWhenDisconnected ==
    \A p \in Procs :
       Entered(p) /\ (~connected \/ ~admin_account) =>
          /\ Returned(p)
          /\ frame[p].result = NotReady
          /\ frame[p].contract_list = <<>>
          /\ frame[p].attempts = <<>>

-----------------------------------------------------------------------------
(* C8 *)

\* The position of contract id in the attempt order of p.
PositionOf(p, id) == CHOOSE j \in DOMAIN Order(p) : Order(p)[j] = id

\* Attempt i of p has failed and the dispatcher has moved past it.
FailedAndLeft(p, i) ==
    \/ i < Len(frame[p].attempts)
    \/ i = Len(frame[p].attempts) /\ Returned(p) /\ ~Successful(p)

\* The pair that follows attempt a in the attempt order: <<>> after the last.
NextPair(p, a) ==
    IF a[2] = "mint" THEN <<a[1], "transfer">>
    ELSE IF PositionOf(p, a[1]) < Len(Order(p))
         THEN <<Order(p)[PositionOf(p, a[1]) + 1], "mint">>
         ELSE <<>>

\* The first pair after attempt a whose contract's set-up did not raise.
NextPairSetUp(p, a) ==
    IF a[2] = "mint" THEN <<a[1], "transfer">>
    ELSE LET later == {j \in DOMAIN Order(p) :
                          j > PositionOf(p, a[1]) /\ Order(p)[j] \notin frame[p].setup_failed}
         IN IF later = {} THEN <<>>
            ELSE <<Order(p)[CHOOSE j \in later : \A n \in later : j <= n], "mint">>

\* A failed attempt is followed by the attempt of pair next(a), or by nothing
\* when next(a) is <<>>.
FollowedBy(p, next(_)) ==
    \A i \in DOMAIN frame[p].attempts :
       FailedAndLeft(p, i) =>
          LET a == frame[p].attempts IN
          IF next(a[i]) = <<>> THEN i = Len(a)
          ELSE i < Len(a) /\ a[i + 1] = next(a[i])

\* A dispatch that made attempts and did not succeed raises AllAttemptsExhausted.
OnlyExhaustedSurfaces(p) ==
    Returned(p) /\ PassedValidation(p) /\ ~Successful(p) => Exhausted(p)

\* C8, as stated: a failed attempt never ends the dispatch while a pair remains
\* in the attempt order: the next pair in order is attempted, and the failure
\* reaches the caller only as AllAttemptsExhausted.
C8_NextPairAlwaysAttempted ==
    \A p \in Procs :
       FollowedBy(p, LAMBDA a : NextPair(p, a)) /\ OnlyExhaustedSurfaces(p)

\* C8, amended: a failed mint is always followed by the transfer on the same
\* contract, and a failed transfer by the mint on the next contract of the
\* order whose set-up does not raise (the contracts whose set-up raises are
\* passed over); the dispatch ends only when no such contract is left, and the
\* failure reaches the caller only as AllAttemptsExhausted.
C8_NextSetUpPairAlwaysAttempted ==
    \A p \in Procs :
       FollowedBy(p, LAMBDA a : NextPairSetUp(p, a)) /\ OnlyExhaustedSurfaces(p)

\* A receipt with status 0 on the first contract, the second contract passed
\* over, an exception on the third, and the dispatch exhausted.
C8_Witness ==
    \E p \in Procs :
       /\ Exhausted(p)
       /\ frame[p].setup_failed = {2}
       /\ frame[p].attempts = <<<<1, "mint">>, <<1, "transfer">>, <<3, "mint">>,
                                <<3, "transfer">>>>
       /\ frame[p].last_reason[1] = "status0"
       /\ frame[p].last_reason[3] = "exception"

-----------------------------------------------------------------------------
(* C9 *)

\* C9: the AllAttemptsExhausted failure carries, for each contract tried, the
\* reason of that contract's last failed attempt.
C9_ExhaustedCarriesReasons ==
    \A p \in Procs :
       Exhausted(p) =>
          \A id \in Tried(p) :
             [contract |-> id, reason |-> frame[p].last_reason[id]]
                \in frame[p].result.reasons

-----------------------------------------------------------------------------
(* C10 *)

\* Request p waits for a transaction that is still pending.
AwaitsPending(p) ==
    /\ frame[p].pc \in {"mint_wait", "transfer_wait"}
    /\ \E t \in pool : t.owner = p /\ t.k = frame[p].tx /\ t.state = "pending"

\* C10: when the wait for a broadcast transaction times out, the attempt counts
\* as failed and the dispatcher goes on to the next method or contract; the
\* transaction is not awaited or queried again and, while its nonce is still
\* free, stays in the pool, where it can be mined later.
C10_TimeoutProceeds ==
    [][\A p \in Procs :
          AwaitsPending(p) /\ frame'[p] # frame[p] =>
             LET f == frame[p]
                 g == frame'[p]
                 t == Awaited(p)
             IN /\ ~g.result.ok
                /\ g.tx = 0
                /\ g.attempts = f.attempts
                /\ g.last_reason[ContractData(f).id] = "exception"
                /\ IF f.pc = "mint_wait" THEN g.pc = "transfer"
                   ELSE IF f.contract_idx < Len(f.contract_list)
                        THEN g.pc = "setup" /\ g.contract_idx = f.contract_idx + 1
                        ELSE g.pc = "returned" /\ g.result = AllAttemptsExhausted
                /\ t.nonce >= latest_nonce => t \in pool']_vars

\* Two transactions of one dispatch were mined successfully, each paying the
\* destination, and the dispatch reported one success.
C10_Witness ==
    \E p \in Procs : Successful(p) /\ delivered[p] = 2

-----------------------------------------------------------------------------
(* C11 *)

\* process_withdrawal is running for request p.
InFlight(p) ==
    frame[p].pc \in {"setup", "mint", "mint_wait", "transfer", "transfer_send",
                     "transfer_wait"}

\* C11: at most one dispatch is in flight at any time, and no two
\* transactions that belong to different dispatches are signed with the same
\* nonce.
C11_OneDispatchInFlight ==
    /\ \A p, q \in Procs : InFlight(p) /\ InFlight(q) => p = q
    /\ \A t, u \in pool : t.owner # u.owner => t.nonce # u.nonce

-----------------------------------------------------------------------------
(* C12 *)

\* withdraw_tokens has received request p and is past its balance check, or
\* has answered.
PastBalanceCheck(p) ==
    frame[p].caller = "withdraw_tokens" /\ frame[p].pc \notin {"idle", "check_balance"}

\* The request passed the checks withdraw_tokens makes before the balance check.
WellFormed(p) ==
    EndpointRejection(web3_ready, frame[p].user_wallet, frame[p].amount_requested) = NoResult

-----------------------------------------------------------------------------
(* C13 *)

\* C13: an InvalidAddress or InvalidAmount failure of process_withdrawal
\* reaches the caller of withdraw_tokens as a client error (status 4xx), and
\* nothing is attempted or retried for it.
C13_ValidationFailureIsClientError ==
    \A p \in Procs :
       /\ frame[p].caller = "withdraw_tokens"
       /\ frame[p].pc = "done"
       /\ frame[p].result \in {InvalidAddress, InvalidAmount}
       => /\ frame[p].response.status \in 400..499
          /\ frame[p].attempts = <<>>

-----------------------------------------------------------------------------
(* C14 *)

\* The values process_withdrawal can end with.
TerminalResults ==
    {NotReady, InvalidAddress, InvalidAmount, AllAttemptsExhausted}
       \cup {SuccessResult(m, CONTRACTS[i]) : m \in Range(METHODS), i \in DOMAIN CONTRACTS}

\* C14: every call of process_withdrawal eventually ends; it ends with a
\* success or with one of the typed failures, and the result, once there,
\* does not change and no further step of the dispatch follows it.
C14_DispatchTerminates ==
    /\ \A p \in Procs : (frame[p].pc = "dispatch") ~> Returned(p)
    /\ [](\A p \in Procs : Returned(p) => frame[p].result \in TerminalResults)
    /\ [][\A p \in Procs :
             Returned(p) => /\ frame'[p].result = frame[p].result
                            /\ frame'[p].attempts = frame[p].attempts
                            /\ Returned(p)']_vars

\* A dispatch that ended after running through every contract.
C14_Witness ==
    \E p \in Procs :
       /\ Exhausted(p)
       /\ frame[p].contract_idx = Len(CONTRACTS)
       /\ frame[p].attempts # <<>>

-----------------------------------------------------------------------------
(* C15 *)

\* Attempt i of p is in flight: it has started and the dispatcher has not
\* yet taken its outcome (success, failure or timeout).
AttemptInFlight(p, i) ==
    /\ i = Len(frame[p].attempts)
    /\ frame[p].pc \in {"mint_wait", "transfer_send", "transfer_wait"}

\* The attempts of p so far follow the attempt order: the pairs come in
\* increasing position, a transfer directly follows the mint on its contract
\* and that mint has failed, and a mint that is over without success is
\* followed by that transfer.
AttemptsInOrder(p) ==
    LET a == frame[p].attempts IN
    /\ \A i, j \in DOMAIN a :
          i < j => PairPosition(p, a[i][1], a[i][2]) < PairPosition(p, a[j][1], a[j][2])
    /\ \A i \in DOMAIN a :
          a[i][2] = "transfer" =>
             /\ i > 1 /\ a[i - 1] = <<a[i][1], "mint">>
             /\ frame[p].last_reason[a[i][1]] \in {"status0", "exception"}
    /\ \A i \in DOMAIN a :
          a[i][2] = "mint" /\ i = Len(a) =>
             \/ frame[p].pc \in {"mint_wait", "transfer"}
             \/ Successful(p) /\ frame[p].result.method = "mint"
    /\ Successful(p) /\ frame[p].result.method = "mint" => Last(a)[2] = "mint"

\* C15: the attempts of one dispatch are strictly ordered.  On each contract
\* the mint is over before the transfer starts, the transfer is attempted if
\* and only if the mint did not succeed, the attempts on the i-th contract
\* are over before any on the (i+1)-th, and an attempt starts only when no
\* attempt of the dispatch is in flight, so at most one is in flight.
C15_AttemptsStrictlyOrdered ==
    /\ [](\A p \in Procs :
             /\ AttemptsInOrder(p)
             /\ frame[p].tx # 0 => frame[p].tx = Len(frame[p].attempts)
             /\ Cardinality({i \in DOMAIN frame[p].attempts : AttemptInFlight(p, i)}) <= 1)
    /\ [][\A p \in Procs :
             frame'[p].attempts # frame[p].attempts =>
                /\ \A i \in DOMAIN frame[p].attempts : ~AttemptInFlight(p, i)
                /\ frame[p].tx = 0
                /\ \E c \in Range(CONTRACTS), m \in Range(METHODS) :
                      frame'[p].attempts = Append(frame[p].attempts, <<c.id, m>>)]_vars

\* The mint on the first contract timed out while pending, its transfer
\* failed, and the mint on the second contract succeeded.
C15_Witness ==
    \E p \in Procs :
       /\ Successful(p)
       /\ frame[p].attempts = <<<<1, "mint">>, <<1, "transfer">>, <<2, "mint">>>>
       /\ frame[p].last_reason[1] = "exception"
       /\ frame[p].result.contract = "Secondary"

-----------------------------------------------------------------------------
(* C16 *)

\* C16: when the mint transaction of a contract was broadcast, the transfer
\* on that contract is not signed with the nonce of that mint, also when the
\* mint is still pending after its wait timed out.
C16_TransferNonceDiffersFromBroadcastMint ==
    \A p \in Procs :
       frame[p].pc = "transfer_wait" /\ frame[p].mint_broadcast =>
          frame[p].fresh_nonce # frame[p].current_nonce

-----------------------------------------------------------------------------
(* C17 *)

\* C17: the nonce a transaction is signed with was read from the chain
\* client after the previous attempt of the dispatch was over: the k-th
\* attempt uses a reading made when exactly k - 1 attempts were over, never a
\* reading that is older than an earlier attempt.
C17_NonceReadAfterPreviousAttempt ==
    /\ \A t \in pool : t.read_after = t.k - 1
    /\ \A p \in Procs :
          LET f == frame[p] IN
          /\ f.pc = "mint" => f.nonce_read_after = Len(f.attempts)
          /\ f.pc \in {"mint_wait", "transfer_wait"} => f.nonce_read_after = f.tx - 1
          /\ f.pc = "transfer_send" => f.nonce_read_after = Len(f.attempts) - 1

\* The mint was mined and reverted, and the transfer on the same contract
\* was broadcast with the next nonce.
C17_Witness ==
    \E p \in Procs :
       /\ frame[p].pc = "transfer_wait"
       /\ frame[p].last_reason[ContractData(frame[p]).id] = "status0"
       /\ frame[p].fresh_nonce = frame[p].current_nonce + 1
       /\ \E t \in pool : t.owner = p /\ t.k = frame[p].tx /\ t.nonce = frame[p].fresh_nonce

-----------------------------------------------------------------------------
(* C18 *)

\* Request p takes the step that sets up the contract at the head of its loop.
SetsUp(p) == frame[p].pc = "setup" /\ frame'[p] # frame[p]

\* The loop of p goes on after the contract it is at: to the next contract,
\* or, after the last, to the raise that follows the loop.
LoopGoesOn(p) ==
    LET f == frame[p]
        g == frame'[p]
    IN IF f.contract_idx < Len(f.contract_list)
       THEN g.pc = "setup" /\ g.contract_idx = f.contract_idx + 1 /\ g.result = NoResult
       ELSE g.pc = "returned" /\ g.result = AllAttemptsExhausted

\* C18: an exception of the set-up of a contract (scaling the amount,
\* fetching the gas price, fetching the pre-mint nonce) is caught for that
\* contract only: no attempt is made on the contract, then or later, and the
\* loop goes on with the next contract in order.
C18_SetupExceptionSkipsContractOnly ==
    /\ [](\A p \in Procs : frame[p].setup_failed \cap Tried(p) = {})
    /\ [][\A p \in Procs :
             SetsUp(p) /\ frame'[p].setup_error # "" =>
                /\ frame'[p].setup_error \in {"scale", "gas_price", "nonce"}
                /\ frame'[p].attempts = frame[p].attempts
                /\ frame'[p].setup_failed =
                      frame[p].setup_failed \cup {ContractData(frame[p]).id}
                /\ frame'[p].contract_list = frame[p].contract_list
                /\ LoopGoesOn(p)]_vars

\* The set-up of the first two contracts raised, the nonce query of the
\* second last, and the mint on the third contract succeeded.
C18_Witness ==
    \E p \in Procs :
       /\ Successful(p)
       /\ frame[p].amount_requested = Num(1, 5)
       /\ frame[p].setup_failed = {CONTRACTS[1].id, CONTRACTS[2].id}
       /\ frame[p].attempts = <<<<CONTRACTS[3].id, "mint">>>>

-----------------------------------------------------------------------------
(* C19 *)

\* The defaults are in place in the locals of p after the step.
DefaultsSubstituted(p) ==
    /\ frame'[p].token_symbol = DEFAULT_SYMBOL
    /\ frame'[p].token_decimals = DEFAULT_DECIMALS

\* C19, as stated: when a metadata query of a contract fails, the defaults
\* are substituted and the contract is not skipped: its mint attempt follows.
C19_MetadataFailureNeverSkips ==
    [][\A p \in Procs :
          SetsUp(p) /\ frame'[p].meta # "ok" =>
             /\ DefaultsSubstituted(p)
             /\ frame'[p].pc = "mint"
             /\ ContractData(frame[p]).id \notin frame'[p].setup_failed]_vars

\* C19, amended: a failing metadata query does not by itself abort the
\* dispatch or skip the contract: the defaults are substituted and the set-up
\* goes on; the mint attempt follows, with the amount scaled by the default
\* decimals, unless a later statement of the set-up (scaling, gas price,
\* pre-mint nonce) raises, and only then is the contract skipped.
C19_MetadataFailureSubstitutesDefaults ==
    /\ [][\A p \in Procs :
             SetsUp(p) /\ frame'[p].meta # "ok" =>
                /\ DefaultsSubstituted(p)
                /\ frame'[p].setup_error \in {"", "scale", "gas_price", "nonce"}
                /\ IF frame'[p].setup_error = ""
                   THEN /\ frame'[p].pc = "mint"
                        /\ frame'[p].contract_idx = frame[p].contract_idx
                        /\ frame'[p].amount_in_wei =
                              ScaleAmount(frame[p].amount_requested, DEFAULT_DECIMALS)
                        /\ frame'[p].setup_failed = frame[p].setup_failed
                   ELSE LoopGoesOn(p)]_vars
    /\ [](\A p \in Procs :
             LET f == frame[p] IN
             f.meta # "" /\ f.meta # "ok" /\ f.setup_error = "" =>
                /\ f.pc \in {"mint_wait", "transfer", "transfer_send", "transfer_wait"}
                      => <<ContractData(f).id, "mint">> \in Range(f.attempts)
                /\ f.pc \in {"transfer_send", "transfer_wait"}
                      => <<ContractData(f).id, "transfer">> \in Range(f.attempts))

\* symbol() failed on the second contract, whose decimals are not 18; its
\* mint failed and its transfer is awaited, both with the default decimals.
C19_Witness ==
    \E p \in Procs :
       /\ frame[p].pc = "transfer_wait"
       /\ ContractData(frame[p]).id = 2
       /\ frame[p].meta = "symbol_fails"
       /\ frame[p].token_symbol = DEFAULT_SYMBOL
       /\ frame[p].amount_in_wei.exp = DEFAULT_DECIMALS
       /\ <<2, "mint">> \in Range(frame[p].attempts)

-----------------------------------------------------------------------------
(* C20 *)

\* C20: when symbol() and decimals() both answer, the amount of the mint and
\* transfer attempts on that contract is scaled by the decimals the contract
\* reported, whatever name() does; the default 18 is used only when symbol()
\* or decimals() fails.
C20_ReportedDecimalsScaleAmount ==
    \A p \in Procs :
       LET f == frame[p] IN
       f.pc \in {"mint", "mint_wait", "transfer", "transfer_send", "transfer_wait"} =>
          IF f.reported_decimals # Unset
          THEN f.amount_in_wei = ScaleAmount(f.amount_requested, f.reported_decimals)
          ELSE f.amount_in_wei = ScaleAmount(f.amount_requested, DEFAULT_DECIMALS)

(* C21 *)

\* Amounts with a fractional digit on either side of one half, for the
\* scaling of main.py:200.
ScaleInputs == {Num(0, 4), Num(1, 7), Num(2, 5)}

\* A direct call of process_withdrawal (main.py:131) with a valid wallet, an
\* accepted amount and the first or the last contract preferred.
ScalingCall(p) ==
    /\ p \in callers
    /\ frame[p].pc = "idle"
    /\ \E a \in ScaleInputs, pref \in {None, Lower(ADDR_TERTIARY)} :
          Set(p, [frame[p] EXCEPT !.caller = "direct", !.pc = "dispatch",
                                  !.user_wallet = USER_WALLET, !.amount_requested = a,
                                  !.preferred_contract = pref])
    /\ UNCHANGED <<globals, balance, connected, latest_nonce, pool, delivered, callers>>

StepScaling(p) ==
    \/ ScalingCall(p)
    \/ Validate(p)
    \/ Setup(p)
    \/ MintSend(p)
    \/ MintWait(p)
    \/ TransferNonce(p)
    \/ TransferSend(p)
    \/ TransferWait(p)

NextScaling == (\E p \in Procs : StepScaling(p)) \/ Mine

SpecScaling == InitWith({1}, {MIN_ADMIN_ETH}) /\ [][NextScaling]_vars

\* units, read as units.hi * 10^units.exp + units.lo * 10^(units.exp - 1), is
\* an integer nearest to a * 10^decimals: the exact product where it is whole,
\* and at most one half away from it where decimals = 0.
NearestUnits(a, decimals, units) ==
    /\ units.exp = decimals
    /\ IF decimals > 0
       THEN units.hi = a.w /\ units.lo = a.t
       ELSE units.lo = 0 /\ 10 * (units.hi - a.w) - a.t \in -5 .. 5

\* C21: in every mint and transfer attempt the amount placed in the call is
\* an integer nearest to requested amount * 10^decimals, for the decimals the
\* contract is scaled by (rounded, not truncated toward zero).
C21_AmountIsRounded ==
    \A p \in Procs :
       LET f == frame[p] IN
       f.pc \in {"mint", "mint_wait", "transfer", "transfer_send", "transfer_wait"} =>
          NearestUnits(f.amount_requested, f.token_decimals, f.amount_in_wei)

====
